---------------------------- MODULE Spec2Model ----------------------------
(***************************************************************************)
(* Model of sku_analyzer.py, a Streamlit script.  Streamlit executes the   *)
(* whole script once when the page opens and once more after every widget  *)
(* change; what survives between two executions is the widget state of the *)
(* session and the st.cache_data caches.  One action of the model is one   *)
(* user interaction together with the script execution it triggers.        *)
(*                                                                         *)
(* Conventions of the model                                                *)
(*   - a DataFrame is the sequence of its rows, a row is a record;         *)
(*   - calendar dates are integers;                                        *)
(*   - money is an integer number of cents, a quotient is the pair         *)
(*     [n |-> numerator, d |-> denominator]; d = 0 is what pandas / numpy  *)
(*     return for x / 0: NaN for 0 / 0 (no exception is raised);           *)
(*   - NA is an empty cell of an uploaded CSV (pandas reads it as NaN);    *)
(*   - an uncaught exception ends the execution: error records its type,   *)
(*     the line that raised and the argument; results of later lines keep  *)
(*     their empty value.                                                  *)
(***************************************************************************)
EXTENDS Integers, Sequences, FiniteSets, TLC

(***************************************************************************)
(* Bounds of the model.                                                    *)
(***************************************************************************)
MaxRows == 2        \* rows of an uploaded CSV file
MaxRuns == 3        \* script executions after the first one
MaxUploads == 1     \* files put into the uploader during a session
MinTopN == 1        \* the slider of line 110 (5, 20, default 10), scaled to
MaxTopN == 2        \* the two products of the model

NA == "NaN"
Dates == 1 .. 3
SkuOrder == <<"A", "B">>
NameOrder == <<"P", "Q">>
CategoryOrder == <<"K", "L">>
Skus == {"A", "B"}
ProductNames == {"P", NA}
Categories == {"K", "L"}
Quantities == 0 .. 1
Prices == 1 .. 2

Min(a, b) == IF a <= b THEN a ELSE b

RECURSIVE SumSeq(_)
SumSeq(s) == IF s = <<>> THEN 0 ELSE Head(s) + SumSeq(Tail(s))

Column(df, c) == [i \in 1 .. Len(df) |-> df[i][c]]

Range(s) == {s[i] : i \in 1 .. Len(s)}

IndexOf(order, x) == CHOOSE i \in 1 .. Len(order) : order[i] = x

(***************************************************************************)
(* Lines 23-75: generate_sample_data.  skus, product_names and categories  *)
(* are parallel lists (two products here instead of fifteen); every day of *)
(* the period and every product draws a quantity, and only a positive      *)
(* quantity makes a row.  draw is the outcome of the random draws; the     *)
(* price of a product is its index, without the random part of line 62.   *)
(***************************************************************************)
skus == <<"A", "B">>
product_names == <<"P", "Q">>
categories == <<"K", "K">>

SampleCells == {<<d, i>> : d \in Dates, i \in 1 .. Len(skus)}

\* Two outcomes: every draw is one unit; the first product draws no unit on day 2.
SampleDraws == {[c \in SampleCells |-> IF c \in Z THEN 0 ELSE 1] :
                  Z \in {{}, {<<2, 1>>}}}

RECURSIVE SampleRows(_, _, _)
SampleRows(draw, d, i) ==
  IF d \notin Dates THEN <<>>
  ELSE IF i > Len(skus) THEN SampleRows(draw, d + 1, 1)
  ELSE LET quantity == draw[<<d, i>>]
           unit_price == i
           rest == SampleRows(draw, d, i + 1)
       IN  IF quantity > 0
           THEN <<[date |-> d, sku |-> skus[i], product_name |-> product_names[i],
                   category |-> categories[i], quantity_sold |-> quantity,
                   unit_price |-> unit_price,
                   total_revenue |-> quantity * unit_price]>> \o rest
           ELSE rest

generate_sample_data(draw) == SampleRows(draw, 1, 1)

(***************************************************************************)
(* Lines 92-106: the uploaded CSV.  A file is its header (the set of its   *)
(* columns) and its rows.  Lines 101-102 raise before any other line can   *)
(* read a date, a quantity or a price the file does not have.              *)
(***************************************************************************)
Columns == {"date", "sku", "product_name", "category", "quantity_sold", "unit_price"}

CsvRows == [date : Dates, sku : Skus, product_name : ProductNames,
            category : Categories, quantity_sold : Quantities, unit_price : Prices]

CsvSeqs == UNION {[1 .. n -> CsvRows] : n \in 1 .. MaxRows}

FullFiles == {[columns |-> Columns, rows |-> r] : r \in CsvSeqs}

PartialFiles ==
  {[columns |-> Columns \ m,
    rows |-> <<[date |-> 1, sku |-> "A", product_name |-> "P", category |-> "K",
                quantity_sold |-> 1, unit_price |-> 2]>>] :
     m \in {x \in SUBSET Columns : Cardinality(x) \in 1 .. 2}}

Files == FullFiles \cup PartialFiles

\* The files with every column whose rows are sales of one unit of product A.
SalesFiles ==
  {f \in FullFiles :
     \A i \in 1 .. Len(f.rows) :
       /\ f.rows[i].sku = "A"
       /\ f.rows[i].product_name = "P"
       /\ f.rows[i].category = "K"
       /\ f.rows[i].quantity_sold = 1
       /\ f.rows[i].unit_price = 2}

NoFile == [columns |-> {}, rows |-> <<>>]

NoError == [type |-> "none", line |-> 0, arg |-> ""]

KeyError(l, c) == [type |-> "KeyError", line |-> l, arg |-> c]

\* Line 100-102: read_csv, then df['date'] and df['quantity_sold'] * df['unit_price'];
\* indexing a column the frame does not hold raises KeyError.
ReadError(file) ==
  IF "date" \notin file.columns THEN KeyError(101, "date")
  ELSE IF "quantity_sold" \notin file.columns THEN KeyError(102, "quantity_sold")
  ELSE IF "unit_price" \notin file.columns THEN KeyError(102, "unit_price")
  ELSE NoError

\* The cell of row r in column c; NoColumn stands for the cells of a column the
\* file does not have.
NoColumn == "no such column"

Cell(file, r, c) == IF c \in file.columns THEN r[c] ELSE NoColumn

ReadCsv(file) ==
  [i \in 1 .. Len(file.rows) |->
     [date |-> file.rows[i].date,
      sku |-> Cell(file, file.rows[i], "sku"),
      product_name |-> Cell(file, file.rows[i], "product_name"),
      category |-> Cell(file, file.rows[i], "category"),
      quantity_sold |-> file.rows[i].quantity_sold,
      unit_price |-> file.rows[i].unit_price,
      total_revenue |-> file.rows[i].quantity_sold * file.rows[i].unit_price]]

(***************************************************************************)
(* Lines 116-129: the date picker and the date-range filter.  The picker   *)
(* is created with the first and the last date of df as default value and  *)
(* as limits; it returns a tuple with one date while the user has picked   *)
(* only the start, with two dates otherwise.                               *)
(***************************************************************************)
MinOf(S) == CHOOSE x \in S : \A y \in S : x <= y

MaxOf(S) == CHOOSE x \in S : \A y \in S : y <= x

DateLimits(df) == <<MinOf(Range(Column(df, "date"))), MaxOf(Range(Column(df, "date")))>>

\* What the picker can hold between min_value and max_value.
DateInputs(limits) ==
  {<<s>> : s \in limits[1] .. limits[2]}
    \cup {<<s, e>> : s \in limits[1] .. limits[2], e \in limits[1] .. limits[2]}

\* The mask with the end date excluded: (date >= start_date) & (date < end_date).
DateMaskEndExcluded(df, start_date, end_date) ==
  [i \in 1 .. Len(df) |-> (df[i].date >= start_date) /\ (df[i].date < end_date)]

\* Line 127: the boolean mask (date >= start_date) & (date <= end_date).
DateMask(df, start_date, end_date) ==
  [i \in 1 .. Len(df) |-> (df[i].date >= start_date) /\ (df[i].date <= end_date)]

\* df[mask]: the rows whose mask is true, in their order.
RECURSIVE Masked(_, _, _)
Masked(df, mask, i) ==
  IF i > Len(df) THEN <<>>
  ELSE IF mask[i] THEN <<df[i]>> \o Masked(df, mask, i + 1)
  ELSE Masked(df, mask, i + 1)

\* Lines 125-129.
DateRangeFilter(df, date_range) ==
  IF Len(date_range) = 2
  THEN Masked(df, DateMask(df, date_range[1], date_range[2]), 1)
  ELSE df

(***************************************************************************)
(* Lines 131-149: calculate_sku_metrics.  groupby drops the rows with an   *)
(* empty cell in a key column (dropna), makes one group per distinct       *)
(* (sku, product_name, category) and returns the groups in key order.      *)
(***************************************************************************)
GroupKey(r) == <<r.sku, r.product_name, r.category>>

HasNA(k) == \E i \in 1 .. Len(k) : k[i] = NA

KeyRank(k) ==
  <<IndexOf(SkuOrder, k[1]), IndexOf(NameOrder, k[2]), IndexOf(CategoryOrder, k[3])>>

KeyLess(a, b) ==
  LET x == KeyRank(a)
      y == KeyRank(b)
  IN  \/ x[1] < y[1]
      \/ x[1] = y[1] /\ x[2] < y[2]
      \/ x[1] = y[1] /\ x[2] = y[2] /\ x[3] < y[3]

RECURSIVE SortedKeys(_)
SortedKeys(S) ==
  IF S = {} THEN <<>>
  ELSE LET k == CHOOSE x \in S : \A y \in S \ {x} : KeyLess(x, y)
       IN  <<k>> \o SortedKeys(S \ {k})

GroupKeys(df) == {GroupKey(df[i]) : i \in {j \in 1 .. Len(df) : ~HasNA(GroupKey(df[j]))}}

GroupRows(df, k) == SelectSeq(df, LAMBDA r : GroupKey(r) = k)

\* Lines 135-147 for one group.
SkuMetricsRow(df, k) ==
  LET g == GroupRows(df, k)
      total_quantity == SumSeq(Column(g, "quantity_sold"))
      total_revenue == SumSeq(Column(g, "total_revenue"))
      days_with_sales == Cardinality(Range(Column(g, "date")))
  IN  [sku |-> k[1], product_name |-> k[2], category |-> k[3],
       total_quantity |-> total_quantity,
       total_revenue |-> total_revenue,
       avg_unit_price |-> [n |-> SumSeq(Column(g, "unit_price")), d |-> Len(g)],
       days_with_sales |-> days_with_sales,
       avg_daily_quantity |-> [n |-> total_quantity, d |-> days_with_sales],
       avg_order_value |-> [n |-> total_revenue, d |-> total_quantity]]

calculate_sku_metrics(df) ==
  LET keys == SortedKeys(GroupKeys(df))
  IN  [i \in 1 .. Len(keys) |-> SkuMetricsRow(df, keys[i])]

\* Line 135 on a frame without one of the key columns.
GroupByError(columns) ==
  IF "sku" \notin columns THEN KeyError(135, "sku")
  ELSE IF "product_name" \notin columns THEN KeyError(135, "product_name")
  ELSE IF "category" \notin columns THEN KeyError(135, "category")
  ELSE NoError

(***************************************************************************)
(* Line 132: st.cache_data.  The cache maps the key of the argument to the *)
(* value the function returned for it; the key is a hash of the frame's    *)
(* content, modelled by the content.                                       *)
(***************************************************************************)
\* A key that tells frames apart by their number of rows only.
CacheKeyRowCount(df) == Len(df)

CacheKey(df) == df

CacheHit(cache, df) == CacheKey(df) \in DOMAIN cache

CachedMetrics(cache, df) ==
  IF CacheHit(cache, df) THEN cache[CacheKey(df)] ELSE calculate_sku_metrics(df)

CacheAfter(cache, df) ==
  IF CacheHit(cache, df) THEN cache
  ELSE (CacheKey(df) :> calculate_sku_metrics(df)) @@ cache

(***************************************************************************)
(* Lines 153-159 and 180: sort_values(column, ascending=False), head.      *)
(* sort_values uses its default kind, quicksort, which is not stable: rows *)
(* with equal values come out in an order the build decides.  Rows whose   *)
(* value is NaN are put last, in their order.                              *)
(***************************************************************************)
Metrics == {"Total Revenue", "Quantity Sold", "Average Order Value"}

Whole(x) == [n |-> x, d |-> 1]

IsNaN(v) == v.d = 0

\* v >= w, for two quotients that are numbers.
GreaterEq(v, w) == v.n * w.d >= w.n * v.d

SortColumn(metric, row) ==
  IF metric = "Total Revenue" THEN Whole(row.total_revenue)
  ELSE IF metric = "Quantity Sold" THEN Whole(row.total_quantity)
  ELSE row.avg_order_value

Injections(n) == {p \in [1 .. n -> 1 .. n] : \A i, j \in 1 .. n : i # j => p[i] # p[j]}

SortOrders(frame, metric) ==
  LET v == [i \in 1 .. Len(frame) |-> SortColumn(metric, frame[i])]
  IN  {p \in Injections(Len(frame)) :
         \A i, j \in 1 .. Len(frame) :
           i < j =>
             \/ IsNaN(v[p[j]]) /\ (IsNaN(v[p[i]]) => p[i] < p[j])
             \/ ~IsNaN(v[p[i]]) /\ ~IsNaN(v[p[j]]) /\ GreaterEq(v[p[i]], v[p[j]])}

\* Every frame sort_values may return.
SortValues(frame, metric) ==
  {[i \in 1 .. Len(frame) |-> frame[p[i]]] : p \in SortOrders(frame, metric)}

head(frame, n) == SubSeq(frame, 1, Min(n, Len(frame)))

(***************************************************************************)
(* Lines 164-174: the three summary numbers.                               *)
(***************************************************************************)
Totals(df_filtered) ==
  LET total_revenue == SumSeq(Column(df_filtered, "total_revenue"))
      total_quantity == SumSeq(Column(df_filtered, "quantity_sold"))
  IN  [total_revenue |-> total_revenue,
       total_quantity |-> total_quantity,
       avg_order_value |-> IF total_quantity > 0
                           THEN [n |-> total_revenue, d |-> total_quantity]
                           ELSE Whole(0)]

(***************************************************************************)
(* Lines 219-222 and 234-237: groupby('category') and groupby('date'),     *)
(* each summing total_revenue and quantity_sold, in key order.             *)
(***************************************************************************)
RECURSIVE SortedCategories(_)
SortedCategories(S) ==
  IF S = {} THEN <<>>
  ELSE LET c == CHOOSE x \in S :
                  \A y \in S : IndexOf(CategoryOrder, x) <= IndexOf(CategoryOrder, y)
       IN  <<c>> \o SortedCategories(S \ {c})

RECURSIVE SortedDates(_)
SortedDates(S) ==
  IF S = {} THEN <<>> ELSE <<MinOf(S)>> \o SortedDates(S \ {MinOf(S)})

CategoryMetrics(df_filtered) ==
  LET keys == SortedCategories(Range(Column(df_filtered, "category")) \ {NA})
  IN  [i \in 1 .. Len(keys) |->
         LET g == SelectSeq(df_filtered, LAMBDA r : r.category = keys[i])
         IN  [category |-> keys[i],
              total_revenue |-> SumSeq(Column(g, "total_revenue")),
              quantity_sold |-> SumSeq(Column(g, "quantity_sold"))]]

DailySales(df_filtered) ==
  LET keys == SortedDates(Range(Column(df_filtered, "date")))
  IN  [i \in 1 .. Len(keys) |->
         LET g == SelectSeq(df_filtered, LAMBDA r : r.date = keys[i])
         IN  [date |-> keys[i],
              total_revenue |-> SumSeq(Column(g, "total_revenue")),
              quantity_sold |-> SumSeq(Column(g, "quantity_sold"))]]

(***************************************************************************)
(* Lines 250-260: the insights text.  Its three arguments are evaluated in *)
(* order: the share of the first three rows (a numpy division: dividing by *)
(* zero gives NaN or inf and does not raise), the category with the        *)
(* largest revenue (idxmax of an empty column raises ValueError), the sku  *)
(* of the first row (iloc[0] of an empty frame raises IndexError).         *)
(***************************************************************************)
NoInsights == [share |-> Whole(0), category |-> "", sku |-> ""]

\* idxmax: the first row holding the largest value.
IdxMax(frame) ==
  CHOOSE i \in 1 .. Len(frame) :
    /\ \A j \in 1 .. Len(frame) : frame[j].total_revenue <= frame[i].total_revenue
    /\ \A j \in 1 .. i - 1 : frame[j].total_revenue < frame[i].total_revenue

InsightsError(top_skus, category_metrics) ==
  IF category_metrics = <<>>
  THEN [type |-> "ValueError", line |-> 258, arg |-> "idxmax"]
  ELSE IF top_skus = <<>>
  THEN [type |-> "IndexError", line |-> 259, arg |-> "iloc"]
  ELSE NoError

Insights(top_skus, category_metrics, total_revenue) ==
  [share |-> [n |-> 100 * SumSeq(Column(head(top_skus, 3), "total_revenue")),
              d |-> total_revenue],
   category |-> category_metrics[IdxMax(category_metrics)].category,
   sku |-> top_skus[1].sku]

(***************************************************************************)
(* The state: the widgets of the session, the two caches, and what the     *)
(* last execution of the script computed.                                  *)
(***************************************************************************)
VARIABLES
  data_source,        \* line 87: the radio
  uploaded_file,      \* line 93: the file in the uploader, NoFile when empty
  top_n,              \* line 110: the slider
  metric,             \* line 111: the select box
  date_limits,        \* line 117: min_value and max_value of the picker
  date_range,         \* line 117: what the picker returns
  sample,             \* line 78: the cached result of load_data
  metrics_cache,      \* line 132: the cache of calculate_sku_metrics
  cache_hit,          \* whether line 151 was answered from the cache
  df,                 \* line 100-106
  df_filtered,        \* line 124-129
  sku_metrics,        \* line 151
  sku_metrics_sorted, \* line 153-159
  totals,             \* line 164-174
  top_skus,           \* line 180
  category_metrics,   \* line 219
  daily_sales,        \* line 234
  insights,           \* line 250-260
  error,              \* the uncaught exception of the execution, or NoError
  runs,               \* executions after the first one
  uploads             \* files put into the uploader

vars == <<data_source, uploaded_file, top_n, metric, date_limits, date_range, sample,
          metrics_cache, cache_hit, df, df_filtered, sku_metrics, sku_metrics_sorted,
          totals, top_skus, category_metrics, daily_sales, insights, error, runs,
          uploads>>

DefaultTopN == MaxTopN
DefaultMetric == "Total Revenue"
NoLimits == <<0, 0>>
NoTotals == [total_revenue |-> 0, total_quantity |-> 0, avg_order_value |-> Whole(0)]

\* The results of an execution before any line has run.
Blank(cache) ==
  [top_n |-> DefaultTopN, metric |-> DefaultMetric, date_limits |-> NoLimits,
   date_range |-> <<>>, metrics_cache |-> cache, cache_hit |-> FALSE,
   df |-> <<>>, df_filtered |-> <<>>, sku_metrics |-> <<>>,
   sku_metrics_sorted |-> <<>>, totals |-> NoTotals, top_skus |-> <<>>,
   category_metrics |-> <<>>, daily_sales |-> <<>>, insights |-> NoInsights,
   error |-> NoError]

(***************************************************************************)
(* Lines 86-260: one execution of the script, from the widget state        *)
(* (ds, file, n, m, and the picker's limits and value of the execution     *)
(* before), the cached sample data and the metrics cache.  A widget that   *)
(* an execution does not reach loses its state; a picker created with      *)
(* other limits is another widget and starts from its default value.  The  *)
(* result is a set: one element for every order sort_values may return.    *)
(***************************************************************************)
Script(ds, file, n, m, limits, picked, loaded, cache) ==
  LET uploaded == ds = "Upload CSV File" /\ file # NoFile
      read_error == IF uploaded THEN ReadError(file) ELSE NoError
      new_df == IF uploaded THEN ReadCsv(file) ELSE loaded
      columns == IF uploaded THEN file.columns ELSE Columns
      new_limits == DateLimits(new_df)
      new_range == IF limits = new_limits THEN picked
                   ELSE <<new_limits[1], new_limits[2]>>
      filtered == DateRangeFilter(new_df, new_range)
      group_error == GroupByError(columns)
      metrics == CachedMetrics(cache, filtered)
      sidebar == [Blank(cache) EXCEPT !.top_n = n, !.metric = m,
                    !.date_limits = new_limits, !.date_range = new_range,
                    !.df = new_df, !.df_filtered = filtered]
  IN  IF read_error # NoError THEN {[Blank(cache) EXCEPT !.error = read_error]}
      ELSE IF group_error # NoError THEN {[sidebar EXCEPT !.error = group_error]}
      ELSE {LET top == head(sorted, n)
                by_category == CategoryMetrics(filtered)
                summary == Totals(filtered)
                insights_error == InsightsError(top, by_category)
                dashboard == [sidebar EXCEPT
                                !.metrics_cache = CacheAfter(cache, filtered),
                                !.cache_hit = CacheHit(cache, filtered),
                                !.sku_metrics = metrics,
                                !.sku_metrics_sorted = sorted,
                                !.totals = summary,
                                !.top_skus = top,
                                !.category_metrics = by_category,
                                !.daily_sales = DailySales(filtered)]
            IN  IF insights_error # NoError
                THEN [dashboard EXCEPT !.error = insights_error]
                ELSE [dashboard EXCEPT
                        !.insights = Insights(top, by_category, summary.total_revenue)] :
              sorted \in SortValues(metrics, m)}

\* The variables an execution sets.
Shown(o) ==
  /\ top_n = o.top_n
  /\ metric = o.metric
  /\ date_limits = o.date_limits
  /\ date_range = o.date_range
  /\ metrics_cache = o.metrics_cache
  /\ cache_hit = o.cache_hit
  /\ df = o.df
  /\ df_filtered = o.df_filtered
  /\ sku_metrics = o.sku_metrics
  /\ sku_metrics_sorted = o.sku_metrics_sorted
  /\ totals = o.totals
  /\ top_skus = o.top_skus
  /\ category_metrics = o.category_metrics
  /\ daily_sales = o.daily_sales
  /\ insights = o.insights
  /\ error = o.error

\* The same, for the state after an action.
ShownNext(o) ==
  /\ top_n' = o.top_n
  /\ metric' = o.metric
  /\ date_limits' = o.date_limits
  /\ date_range' = o.date_range
  /\ metrics_cache' = o.metrics_cache
  /\ cache_hit' = o.cache_hit
  /\ df' = o.df
  /\ df_filtered' = o.df_filtered
  /\ sku_metrics' = o.sku_metrics
  /\ sku_metrics_sorted' = o.sku_metrics_sorted
  /\ totals' = o.totals
  /\ top_skus' = o.top_skus
  /\ category_metrics' = o.category_metrics
  /\ daily_sales' = o.daily_sales
  /\ insights' = o.insights
  /\ error' = o.error

\* The page is opened: the first execution, with every widget at its default.
Init ==
  \E draw \in SampleDraws :
    \E o \in Script("Use Sample Data", NoFile, DefaultTopN, DefaultMetric, NoLimits,
                    <<>>, generate_sample_data(draw), <<>>) :
      /\ data_source = "Use Sample Data"
      /\ uploaded_file = NoFile
      /\ sample = generate_sample_data(draw)
      /\ runs = 0
      /\ uploads = 0
      /\ Shown(o)

\* The execution that follows a widget change.
Rerun(ds, file, n, m, picked) ==
  /\ runs' = runs + 1
  /\ data_source' = ds
  /\ uploaded_file' = file
  /\ sample' = sample
  /\ \E o \in Script(ds, file, n, m, date_limits, picked, sample, metrics_cache) :
       ShownNext(o)

\* Whether the last execution reached the widget created at line l.
Rendered(l) == error = NoError \/ error.line > l

\* Line 87.  The uploader exists only while "Upload CSV File" is chosen.
SelectDataSource ==
  /\ runs < MaxRuns
  /\ \E s \in {"Use Sample Data", "Upload CSV File"} :
    /\ s # data_source
    /\ uploads' = uploads
    /\ Rerun(s, NoFile, top_n, metric, date_range)

\* Line 93: the user puts one of the files at hand into the uploader.
UploadFile(at_hand) ==
  /\ runs < MaxRuns
  /\ uploads < MaxUploads
  /\ data_source = "Upload CSV File"
  /\ \E f \in at_hand :
    /\ f # uploaded_file
    /\ uploads' = uploads + 1
    /\ Rerun(data_source, f, top_n, metric, date_range)

\* Line 93: the user removes the file from the uploader.
RemoveFile ==
  /\ runs < MaxRuns
  /\ data_source = "Upload CSV File"
  /\ uploaded_file # NoFile
  /\ uploads' = uploads
  /\ Rerun(data_source, NoFile, top_n, metric, date_range)

\* Line 110.
SetTopN ==
  /\ runs < MaxRuns
  /\ Rendered(110)
  /\ \E n \in MinTopN .. MaxTopN :
    /\ n # top_n
    /\ uploads' = uploads
    /\ Rerun(data_source, uploaded_file, n, metric, date_range)

\* Line 111.
SetMetric ==
  /\ runs < MaxRuns
  /\ Rendered(111)
  /\ \E m \in Metrics :
    /\ m # metric
    /\ uploads' = uploads
    /\ Rerun(data_source, uploaded_file, top_n, m, date_range)

\* Line 117.
SetDateRange ==
  /\ runs < MaxRuns
  /\ Rendered(117)
  /\ \E v \in DateInputs(date_limits) :
    /\ v # date_range
    /\ uploads' = uploads
    /\ Rerun(data_source, uploaded_file, top_n, metric, v)

Next ==
  \/ SelectDataSource
  \/ UploadFile(Files)
  \/ RemoveFile
  \/ SetTopN
  \/ SetMetric
  \/ SetDateRange

Spec == Init /\ [][Next]_vars

\* The same session with only sales files at hand.
NextSales ==
  \/ SelectDataSource
  \/ UploadFile(SalesFiles)
  \/ RemoveFile
  \/ SetTopN
  \/ SetMetric
  \/ SetDateRange

SpecSales == Init /\ [][NextSales]_vars

(***************************************************************************)
(* The properties.                                                         *)
(***************************************************************************)
\* Whether the last execution ran line l to its end.
Done(l) == error = NoError \/ error.line > l

\* The records the script works on: the uploaded file when there is one, else the
\* sample data.
Uploaded == data_source = "Upload CSV File" /\ uploaded_file # NoFile

InUse == IF Uploaded THEN ReadCsv(uploaded_file) ELSE sample

WellFormed(r) == Len(r) = 2 /\ r[1] <= r[2]

IsZero(v) == v.d # 0 /\ v.n = 0

SkusOf(frame) == Range(Column(frame, "sku"))

\* C1: the top-N table is ordered non-increasingly by the selected metric (an
\* undefined value counts as the smallest) and has min(N, number of distinct sku
\* values of the filtered records) rows.
C1_RankedTopN ==
  Done(180) =>
    /\ \A i \in 1 .. Len(top_skus) - 1 :
         LET v == SortColumn(metric, top_skus[i])
             w == SortColumn(metric, top_skus[i + 1])
         IN  IsNaN(w) \/ (~IsNaN(v) /\ GreaterEq(v, w))
    /\ Len(top_skus) = Min(top_n, Cardinality(SkusOf(df_filtered)))

\* C2: for a non-empty filtered record set, the total_revenue of the SKU metrics
\* rows adds up to the total_revenue of the filtered records, which is the
\* "Total Revenue" number of the dashboard.
C2_RevenueConserved ==
  (Done(166) /\ df_filtered # <<>>) =>
    /\ SumSeq(Column(sku_metrics, "total_revenue"))
         = SumSeq(Column(df_filtered, "total_revenue"))
    /\ SumSeq(Column(sku_metrics, "total_revenue")) = totals.total_revenue

\* C3: a date range with one endpoint only, or with start_date > end_date, leaves
\* the record set unfiltered.
C3_MalformedRangeFallsBack ==
  (Done(129) /\ ~WellFormed(date_range)) => df_filtered = df

\* C4: calculate_sku_metrics returns exactly one row for every sku of its input.
C4_OneRowPerSku ==
  Done(151) =>
    /\ \A s \in SkusOf(df_filtered) :
         Cardinality({i \in 1 .. Len(sku_metrics) : sku_metrics[i].sku = s}) = 1
    /\ Len(sku_metrics) = Cardinality(SkusOf(df_filtered))

\* C5: a group whose total_quantity is 0 has avg_order_value 0, and a group whose
\* days_with_sales is 0 has avg_daily_quantity 0.
C5_ZeroDivisionGivesZero ==
  Done(151) =>
    \A i \in 1 .. Len(sku_metrics) :
      /\ sku_metrics[i].total_quantity = 0 => IsZero(sku_metrics[i].avg_order_value)
      /\ sku_metrics[i].days_with_sales = 0 => IsZero(sku_metrics[i].avg_daily_quantity)

\* C6: when the date range excludes every record, the execution ends without an
\* exception and its aggregations are empty.  Stated for the ranges with
\* start_date <= end_date, which are enough to refute it.
C6_EmptySelectionRenders ==
  (Done(129) /\ WellFormed(date_range) /\ df_filtered = <<>>) =>
    /\ error = NoError
    /\ sku_metrics = <<>>
    /\ top_skus = <<>>
    /\ category_metrics = <<>>
    /\ daily_sales = <<>>

\* C7: two rows of the top-N table with the same value of the selected metric are
\* in ascending sku order.
C7_TiesBySku ==
  Done(180) =>
    \A i, j \in 1 .. Len(top_skus) :
      LET v == SortColumn(metric, top_skus[i])
          w == SortColumn(metric, top_skus[j])
      IN  (i < j /\ ~IsNaN(v) /\ ~IsNaN(w) /\ GreaterEq(v, w) /\ GreaterEq(w, v))
            => IndexOf(SkuOrder, top_skus[i].sku) <= IndexOf(SkuOrder, top_skus[j].sku)

\* C8: for a range with start_date <= end_date the filter returns exactly the
\* records whose date lies between the two endpoints, both included, leaves its
\* input as it was loaded, and returns its own output unchanged when applied to it
\* again.
C8_FilterInclusive ==
  (Done(129) /\ WellFormed(date_range)) =>
    /\ df_filtered
         = SelectSeq(df, LAMBDA r : date_range[1] <= r.date /\ r.date <= date_range[2])
    /\ df = InUse
    /\ DateRangeFilter(df_filtered, date_range) = df_filtered

\* C8: a file is in use, an inclusive range keeps a record dated on its end and
\* one dated on its start, and drops another record.
C8_Witness ==
  /\ Uploaded
  /\ Done(129)
  /\ WellFormed(date_range)
  /\ Len(df_filtered) < Len(df)
  /\ \E i \in 1 .. Len(df_filtered) : df_filtered[i].date = date_range[2]
  /\ \E i \in 1 .. Len(df_filtered) : df_filtered[i].date = date_range[1]

C10_MissingColumns ==
  Uploaded =>
    LET missing == Columns \ uploaded_file.columns
    IN  /\ (missing \ {"category"}) # {} =>
             /\ error # NoError
             /\ error.arg \in missing
             /\ sku_metrics = <<>>
             /\ top_skus = <<>>
             /\ category_metrics = <<>>
             /\ daily_sales = <<>>
        /\ missing = {"category"} =>
             /\ error = NoError
             /\ df # <<>>
             /\ \A i \in 1 .. Len(df) : df[i].category = "Unknown"

=============================================================================
